---- MODULE Spec2Model ----
(***************************************************************************)
(* Model of src/app.py: the SpeechRecognitionApp React component and the   *)
(* Web Speech API recognizers it creates.                                  *)
(*                                                                         *)
(* Each event handler (a click, a change event, a recognizer callback) is  *)
(* one atomic action: the state setters it calls are applied, in order,    *)
(* before the next handler runs, and the buttons' disabled attributes are  *)
(* evaluated on the resulting state.                                       *)
(*                                                                         *)
(* Text values (the transcript, the status message, recognition results)   *)
(* are sequences of tokens; concatenation of strings is \o on them and     *)
(* the empty string is << >>.                                              *)
(***************************************************************************)
EXTENDS Integers, Sequences, FiniteSets, TLC

VARIABLES
  transcribedText,   \* useState('')       src/app.py:5
  isRecording,       \* useState(false)    src/app.py:6
  isPaused,          \* useState(false)    src/app.py:7
  selectedLanguage,  \* useState('en-US')  src/app.py:8
  selectedAPI,       \* useState('web')    src/app.py:9
  status,            \* useState('')       src/app.py:10
  recognitionRef,    \* useRef(null)       src/app.py:11 (0 is null, else a recognizer)
  recognizers,       \* the SpeechRecognition objects created so far
  supported,         \* window.SpeechRecognition || window.webkitSpeechRecognition exists
  downloads,         \* the files handed to the browser by element.click(), in order
  clipboard,         \* the text last given to navigator.clipboard.writeText
  predicted,         \* history: state of the spec's machine for the clicks made so far
  faulted,           \* history: the recognition service failed or ended on its own
  idleSinceStop,     \* history: Stop was clicked and no Start or Resume since
  base,              \* history: the transcript as last written by an edit, a clear or Init
  finals,            \* history: the final results delivered since, in delivery order
  last               \* history: the handler that ran last

vars == <<transcribedText, isRecording, isPaused, selectedLanguage, selectedAPI,
          status, recognitionRef, recognizers, supported, downloads, clipboard,
          predicted, faulted, idleSinceStop, base, finals, last>>

----------------------------------------------------------------------------
(* Bounds of the model *)

MaxRecognizers == 2

MaxLen == 4

MaxResults == 2

MaxDownloads == 1

----------------------------------------------------------------------------
(* Values *)

RecIds == 1..MaxRecognizers

\* the codes of the language <select>, a subset of `languages`
LanguageCodes == {"en-US", "es-ES"}

APIOptions == {"web"}

\* transcripts a recognition result may carry
Phrases == {<<"hello">>, <<"world">>}

\* values the user may leave in the text area
EditValues == {<< >>, <<" ">>, <<"edit">>}

\* SpeechRecognitionErrorEvent.error of a failure of the service
ErrorKinds == {"network"}

StatusEmpty == << >>

StatusNotSupported == <<"[x] Speech Recognition not supported in your browser">>

StatusListening == <<"[mic] Listening...">>

StatusInterim(interimTranscript) ==
  <<"[mic] Listening... \"">> \o interimTranscript \o <<"\"">>

StatusError(error) == <<"[x] Error: ", error>>

StatusStopped == <<"[ok] Recording stopped">>

StatusPaused == <<"[pause] Paused">>

StatusNoText == <<"[!] No text to save">>

StatusSaved == <<"[ok] File saved!">>

StatusCopied == <<"[clip] Copied to clipboard!">>

\* values of new Date(), by their UTC fields
Dates ==
  { [year |-> 2026, month |-> 11, day |-> 3, hour |-> 9, minute |-> 5,
     second |-> 7, ms |-> 42],
    [year |-> 1999, month |-> 12, day |-> 31, hour |-> 23, minute |-> 59,
     second |-> 59, ms |-> 999] }

NoRecognizer ==
  [phase |-> "none", started |-> FALSE, language |-> "", error |-> "none"]

\* the events a recognizer may deliver to onresult
ResultItems == [transcript : Phrases, isFinal : BOOLEAN]

ResultLists == UNION {[1..n -> ResultItems] : n \in 1..MaxResults}

ResultEvents ==
  {ev \in [resultIndex : 0..(MaxResults - 1), results : ResultLists] :
     ev.resultIndex < Len(ev.results)}

\* the inputs of the session specification: one result per event, one edit
SessionEvents ==
  {ev \in ResultEvents : Len(ev.results) = 1 /\ ev.results[1].transcript = <<"hello">>}

SessionEdits == {<<"edit">>}

----------------------------------------------------------------------------
(* The session state of the spec's state machine, read off the two flags *)

SessionState ==
  IF isPaused THEN "Paused" ELSE IF isRecording THEN "Recording" ELSE "Idle"

StartEnabled == ~isRecording

\* a Pause/Resume button that is never disabled
PauseAlwaysEnabled == TRUE

PauseEnabled == isRecording

StopEnabled == isRecording

----------------------------------------------------------------------------
(* The Web Speech API: what start(), stop() and abort() do to a recognizer *)

\* started and not yet ended
Outstanding(r) ==
  recognizers[r].phase \in
    {"starting", "listening", "stopping", "aborting", "failing", "ending"}

\* a callback of r is still to be delivered
CallbackPending(r) ==
  recognizers[r].phase \in {"starting", "stopping", "aborting", "failing", "ending"}

RecStart(rs, r, lang) ==
  [rs EXCEPT ![r] = [phase |-> "starting", started |-> FALSE,
                     language |-> lang, error |-> "none"]]

\* stop(): ignored unless the recognizer is starting or listening
RecStop(rs, r) ==
  IF rs[r].phase \in {"starting", "listening"}
  THEN [rs EXCEPT ![r].phase = "stopping"]
  ELSE rs

\* abort(): ignored once ended, failed or aborted
RecAbort(rs, r) ==
  IF rs[r].phase \in {"starting", "listening", "stopping"}
  THEN [rs EXCEPT ![r].phase = "aborting"]
  ELSE rs

----------------------------------------------------------------------------
(* The spec's state machine (spec section 4.1), driven by the clicks *)

SpecStart(s) == "Recording"

SpecPauseResume(s) ==
  IF s = "Recording" THEN "Paused" ELSE IF s = "Paused" THEN "Recording" ELSE s

SpecStop(s) == "Idle"

SpecTransitions ==
  { <<"Idle", "Recording">>, <<"Recording", "Paused">>, <<"Paused", "Recording">>,
    <<"Recording", "Idle">>, <<"Paused", "Idle">> }

----------------------------------------------------------------------------
(* Pure parts of the handlers *)

\* the characters String.prototype.trim removes
Whitespace == {" "}

RECURSIVE trimStart(_)
trimStart(text) ==
  IF text = << >> \/ Head(text) \notin Whitespace THEN text
  ELSE trimStart(Tail(text))

RECURSIVE trimEnd(_)
trimEnd(text) ==
  IF text = << >> \/ text[Len(text)] \notin Whitespace THEN text
  ELSE trimEnd(SubSeq(text, 1, Len(text) - 1))

\* a test of the transcript that does not trim it
trimNothing(text) == text

\* transcribedText.trim()
trim(text) == trimEnd(trimStart(text))

DigitChars == <<"0", "1", "2", "3", "4", "5", "6", "7", "8", "9">>

\* n in decimal, zero-padded to width characters
RECURSIVE Pad(_, _)
Pad(n, width) ==
  IF width = 0 THEN << >>
  ELSE Pad(n \div 10, width - 1) \o <<DigitChars[(n % 10) + 1]>>

\* Date.prototype.toISOString: YYYY-MM-DDTHH:mm:ss.sssZ
toISOString(d) ==
  Pad(d.year, 4) \o <<"-">> \o Pad(d.month, 2) \o <<"-">> \o Pad(d.day, 2)
    \o <<"T">> \o Pad(d.hour, 2) \o <<":">> \o Pad(d.minute, 2) \o <<":">>
    \o Pad(d.second, 2) \o <<".">> \o Pad(d.ms, 3) \o <<"Z">>

\* String.prototype.slice(from, to), 0-based, to excluded
slice(text, from, to) == SubSeq(text, from + 1, to)

\* replace(/:/g, '-')
replaceColons(text) ==
  [i \in 1..Len(text) |-> IF text[i] = ":" THEN "-" ELSE text[i]]

\* a timestamp that keeps the colons of the ISO string
timestampKeepsColons(now) == slice(toISOString(now), 0, 19)

\* new Date().toISOString().slice(0, 19).replace(/:/g, '-')
timestamp(now) == replaceColons(slice(toISOString(now), 0, 19))

\* `transcription_${timestamp}.txt`
downloadName(now) == <<"transcription_">> \o timestamp(now) \o <<".txt">>

\* a result that replaces the transcript instead of extending it
AppendFinalDropsPrev(prev, transcript) == <<" ">> \o transcript

\* a result appended without the separating space
AppendFinalNoSpace(prev, transcript) == prev \o transcript

\* prev => prev + ' ' + transcript
AppendFinal(prev, transcript) == prev \o <<" ">> \o transcript

\* the loop of onresult without the isFinal test: every result is appended
RECURSIVE onresultLoopAppendsAll(_, _, _)
onresultLoopAppendsAll(ev, i, acc) ==
  IF i >= Len(ev.results) THEN acc
  ELSE onresultLoopAppendsAll(ev, i + 1,
         [acc EXCEPT !.text = @ \o <<" ">> \o ev.results[i + 1].transcript])

\* the loop of onresult from index i (0-based) on; acc = [text, interim]
RECURSIVE onresultLoop(_, _, _)
onresultLoop(ev, i, acc) ==
  IF i >= Len(ev.results) THEN acc
  ELSE LET res == ev.results[i + 1] IN
       IF res.isFinal
       THEN onresultLoop(ev, i + 1,
              [acc EXCEPT !.text = AppendFinal(acc.text, res.transcript)])
       ELSE onresultLoop(ev, i + 1,
              [acc EXCEPT !.interim = acc.interim \o res.transcript])

\* the final transcripts of the event, from resultIndex on, in order
RECURSIVE FinalsFrom(_, _)
FinalsFrom(ev, i) ==
  IF i >= Len(ev.results) THEN << >>
  ELSE IF ev.results[i + 1].isFinal
       THEN <<ev.results[i + 1].transcript>> \o FinalsFrom(ev, i + 1)
       ELSE FinalsFrom(ev, i + 1)

----------------------------------------------------------------------------
Init ==
  /\ transcribedText = << >>
  /\ isRecording = FALSE
  /\ isPaused = FALSE
  /\ selectedLanguage = "en-US"
  /\ selectedAPI = "web"
  /\ status = StatusEmpty
  /\ recognitionRef = 0
  /\ recognizers = [r \in RecIds |-> NoRecognizer]
  /\ supported \in BOOLEAN
  /\ downloads = << >>
  /\ clipboard = << >>
  /\ predicted = "Idle"
  /\ faulted = FALSE
  /\ idleSinceStop = FALSE
  /\ base = << >>
  /\ finals = << >>
  /\ last = "init"

history == <<predicted, faulted, idleSinceStop, base, finals>>

\* what the component has handed to the browser
external == <<downloads, clipboard>>

----------------------------------------------------------------------------
(* startRecording, as a function of the recognizers it finds: the values   *)
(* it leaves in status, recognitionRef and the recognizers.  A fresh       *)
(* recognizer's start() does not throw, so the catch branch is not taken.  *)

\* a startRecording that does not test for the SpeechRecognition constructor
startRecordingUnchecked(rs) ==
  LET r == CHOOSE x \in RecIds :
             rs[x].phase = "none" /\ \A y \in RecIds : y < x => rs[y].phase # "none"
  IN  [status |-> status, ref |-> r,
       recs |-> RecStart(rs, r, selectedLanguage)]

startRecording(rs) ==
  IF ~supported
  THEN [status |-> StatusNotSupported, ref |-> recognitionRef, recs |-> rs]
  ELSE LET r == CHOOSE x \in RecIds :
                  rs[x].phase = "none" /\ \A y \in RecIds : y < x => rs[y].phase # "none"
       IN  [status |-> status, ref |-> r,
            recs |-> RecStart(rs, r, selectedLanguage)]

CanCreate == \/ ~supported
             \/ \E r \in RecIds : recognizers[r].phase = "none"

\* click on "Start Recording"
StartClick ==
  /\ StartEnabled
  /\ CanCreate
  /\ LET e == startRecording(recognizers) IN
       /\ status' = e.status
       /\ recognitionRef' = e.ref
       /\ recognizers' = e.recs
  /\ predicted' = IF supported THEN SpecStart(predicted) ELSE predicted
  /\ idleSinceStop' = FALSE
  /\ UNCHANGED <<transcribedText, isRecording, isPaused, selectedLanguage,
                 selectedAPI, supported, faulted, base, finals>>
  /\ UNCHANGED external
  /\ last' = "StartClick"

\* click on "Stop"
StopClick ==
  /\ StopEnabled
  /\ IF recognitionRef # 0
     THEN /\ recognizers' = RecStop(recognizers, recognitionRef)
          /\ isRecording' = FALSE
          /\ isPaused' = FALSE
     ELSE UNCHANGED <<recognizers, isRecording, isPaused>>
  /\ predicted' = SpecStop(predicted)
  /\ idleSinceStop' = TRUE
  /\ UNCHANGED <<transcribedText, selectedLanguage, selectedAPI, status,
                 recognitionRef, supported, faulted, base, finals>>
  /\ UNCHANGED external
  /\ last' = "StopClick"

\* click on "Pause" (isPaused false) or "Resume" (isPaused true)
PauseClick ==
  /\ PauseEnabled
  /\ ~isPaused
  /\ IF recognitionRef # 0
     THEN /\ recognizers' = RecAbort(recognizers, recognitionRef)
          /\ isPaused' = TRUE
          /\ status' = StatusPaused
     ELSE UNCHANGED <<recognizers, isPaused, status>>
  /\ predicted' = SpecPauseResume(predicted)
  /\ UNCHANGED <<transcribedText, isRecording, selectedLanguage, selectedAPI,
                 recognitionRef, supported, faulted, idleSinceStop, base, finals>>
  /\ UNCHANGED external
  /\ last' = "PauseClick"

ResumeClick ==
  /\ PauseEnabled
  /\ isPaused
  /\ CanCreate
  /\ IF recognitionRef # 0
     THEN LET e == startRecording(RecAbort(recognizers, recognitionRef)) IN
            /\ status' = e.status
            /\ recognitionRef' = e.ref
            /\ recognizers' = e.recs
            /\ isPaused' = FALSE
     ELSE UNCHANGED <<recognizers, isPaused, status, recognitionRef>>
  /\ predicted' = SpecPauseResume(predicted)
  /\ idleSinceStop' = FALSE
  /\ UNCHANGED <<transcribedText, isRecording, selectedLanguage, selectedAPI,
                 supported, faulted, base, finals>>
  /\ UNCHANGED external
  /\ last' = "ResumeClick"

\* a Clear that empties the text area and leaves the status message
clearTextKeepsStatus ==
  /\ transcribedText' = << >>
  /\ base' = << >>
  /\ finals' = << >>
  /\ UNCHANGED <<isRecording, isPaused, selectedLanguage, selectedAPI, status,
                 recognitionRef, recognizers, supported,
                 predicted, faulted, idleSinceStop>>
  /\ UNCHANGED external
  /\ last' = "clearText"

\* click on "Clear"
clearText ==
  /\ transcribedText' = << >>
  /\ status' = StatusEmpty
  /\ base' = << >>
  /\ finals' = << >>
  /\ UNCHANGED <<isRecording, isPaused, selectedLanguage, selectedAPI,
                 recognitionRef, recognizers, supported,
                 predicted, faulted, idleSinceStop>>
  /\ UNCHANGED external
  /\ last' = "clearText"

\* click on "Save File"
saveToFile(now) ==
  /\ IF trim(transcribedText) = << >>
     THEN /\ status' = StatusNoText
          /\ UNCHANGED downloads
     ELSE /\ Len(downloads) < MaxDownloads
          /\ downloads' = Append(downloads, [download |-> downloadName(now),
                                              content |-> transcribedText])
          /\ status' = StatusSaved
  /\ UNCHANGED <<transcribedText, isRecording, isPaused, selectedLanguage,
                 selectedAPI, recognitionRef, recognizers, supported,
                 clipboard, history>>
  /\ last' = "saveToFile"

\* click on "Copy"
copyToClipboard ==
  /\ clipboard' = transcribedText
  /\ status' = StatusCopied
  /\ UNCHANGED <<transcribedText, isRecording, isPaused, selectedLanguage,
                 selectedAPI, recognitionRef, recognizers, supported,
                 downloads, history>>
  /\ last' = "copyToClipboard"

\* onChange of the text area
EditText(value) ==
  /\ transcribedText' = value
  /\ base' = value
  /\ finals' = << >>
  /\ UNCHANGED <<isRecording, isPaused, selectedLanguage, selectedAPI, status,
                 recognitionRef, recognizers, supported,
                 predicted, faulted, idleSinceStop>>
  /\ UNCHANGED external
  /\ last' = "EditText"

\* a language selection that also reconfigures the recognizer in recognitionRef
SelectLanguageRetargets(code) ==
  /\ selectedLanguage' = code
  /\ recognizers' = IF recognitionRef # 0
                    THEN [recognizers EXCEPT ![recognitionRef].language = code]
                    ELSE recognizers
  /\ UNCHANGED <<transcribedText, isRecording, isPaused, selectedAPI, status,
                 recognitionRef, supported, history>>
  /\ UNCHANGED external
  /\ last' = "SelectLanguage"

\* onChange of the language <select>
SelectLanguage(code) ==
  /\ selectedLanguage' = code
  /\ UNCHANGED <<transcribedText, isRecording, isPaused, selectedAPI, status,
                 recognitionRef, recognizers, supported, history>>
  /\ UNCHANGED external
  /\ last' = "SelectLanguage"

\* onChange of the API <select>
SelectAPI(api) ==
  /\ selectedAPI' = api
  /\ UNCHANGED <<transcribedText, isRecording, isPaused, selectedLanguage, status,
                 recognitionRef, recognizers, supported, history>>
  /\ UNCHANGED external
  /\ last' = "SelectAPI"

----------------------------------------------------------------------------
(* Recognizer callbacks *)

\* recognition.onstart; a start event already on its way may still arrive
\* after stop() or abort() was called on a recognizer that is starting
onstart(r) ==
  /\ ~recognizers[r].started
  /\ recognizers[r].phase \in {"starting", "stopping", "aborting"}
  /\ recognizers' =
       [recognizers EXCEPT ![r].started = TRUE,
                           ![r].phase = IF @ = "starting" THEN "listening" ELSE @]
  /\ isRecording' = TRUE
  /\ status' = StatusListening
  /\ UNCHANGED <<transcribedText, isPaused, selectedLanguage, selectedAPI,
                 recognitionRef, supported, history>>
  /\ UNCHANGED external
  /\ last' = "onstart"

\* recognition.onresult; after stop() the recognizer may still return
\* results for the audio it has received
onresult(r, ev) ==
  /\ \/ recognizers[r].phase = "listening"
     \/ recognizers[r].phase = "stopping" /\ recognizers[r].started
  /\ LET out == onresultLoop(ev, ev.resultIndex,
                             [text |-> transcribedText, interim |-> << >>])
     IN  /\ Len(out.text) <= MaxLen
         /\ transcribedText' = out.text
         /\ status' = IF out.interim # << >> THEN StatusInterim(out.interim)
                      ELSE status
  /\ finals' = finals \o FinalsFrom(ev, ev.resultIndex)
  /\ UNCHANGED <<isRecording, isPaused, selectedLanguage, selectedAPI,
                 recognitionRef, recognizers, supported,
                 predicted, faulted, idleSinceStop, base>>
  /\ UNCHANGED external
  /\ last' = IF FinalsFrom(ev, ev.resultIndex) = << >> THEN "onresult:interim" ELSE "onresult:final"

\* recognition.onerror: of a failure of the service, or the 'aborted' error
\* a browser may report for abort()
onerror(r) ==
  /\ recognizers[r].phase \in {"failing", "aborting"}
  /\ LET error == IF recognizers[r].phase = "failing"
                  THEN recognizers[r].error ELSE "aborted"
     IN  /\ status' = StatusError(error)
         /\ recognizers' = [recognizers EXCEPT ![r].phase = "ending",
                                               ![r].error = error]
  /\ UNCHANGED <<transcribedText, isRecording, isPaused, selectedLanguage,
                 selectedAPI, recognitionRef, supported, history>>
  /\ UNCHANGED external
  /\ last' = "onerror"

\* recognition.onend; an ended recognizer delivers nothing more, so the
\* bookkeeping of its callbacks (started, error) is reset
onend(r) ==
  /\ recognizers[r].phase \in {"stopping", "aborting", "ending"}
  /\ recognizers' = [recognizers EXCEPT ![r].phase = "ended", ![r].started = TRUE,
                                        ![r].error = "none"]
  /\ isRecording' = FALSE
  /\ status' = StatusStopped
  /\ UNCHANGED <<transcribedText, isPaused, selectedLanguage, selectedAPI,
                 recognitionRef, supported, history>>
  /\ UNCHANGED external
  /\ last' = IF recognizers[r].error # "none" THEN "onend:error" ELSE "onend"

----------------------------------------------------------------------------
(* The recognition service *)

\* the service fails (no speech, network, ...): onerror and onend follow
ServiceError(r, kind) ==
  /\ recognizers[r].phase \in {"starting", "listening", "stopping"}
  /\ recognizers' = [recognizers EXCEPT ![r].phase = "failing", ![r].error = kind]
  /\ faulted' = TRUE
  /\ UNCHANGED <<transcribedText, isRecording, isPaused, selectedLanguage,
                 selectedAPI, status, recognitionRef, supported,
                 predicted, idleSinceStop, base, finals>>
  /\ UNCHANGED external
  /\ last' = "ServiceError"

\* the service ends the session on its own: onend follows
ServiceEnd(r) ==
  /\ recognizers[r].phase = "listening"
  /\ recognizers' = [recognizers EXCEPT ![r].phase = "ending"]
  /\ faulted' = TRUE
  /\ UNCHANGED <<transcribedText, isRecording, isPaused, selectedLanguage,
                 selectedAPI, status, recognitionRef, supported,
                 predicted, idleSinceStop, base, finals>>
  /\ UNCHANGED external
  /\ last' = "ServiceEnd"

----------------------------------------------------------------------------
(* The session: the recording controls, the recognizer callbacks and the   *)
(* recognition service, with one-result events and one edit value.         *)

Next ==
  \/ StartClick
  \/ StopClick
  \/ PauseClick
  \/ ResumeClick
  \/ clearText
  \/ \E value \in SessionEdits : EditText(value)
  \/ \E r \in RecIds : onstart(r)
  \/ \E r \in RecIds, ev \in SessionEvents : onresult(r, ev)
  \/ \E r \in RecIds : onerror(r)
  \/ \E r \in RecIds : onend(r)
  \/ \E r \in RecIds, kind \in ErrorKinds : ServiceError(r, kind)
  \/ \E r \in RecIds : ServiceEnd(r)

Spec == Init /\ [][Next]_vars

(* The transcript: the handlers that write it, with every event and edit,  *)
(* and the handlers that bring a recognizer to deliver results.            *)

NextText ==
  \/ StartClick
  \/ clearText
  \/ \E value \in EditValues : EditText(value)
  \/ \E r \in RecIds : onstart(r)
  \/ \E r \in RecIds, ev \in ResultEvents : onresult(r, ev)

SpecText == Init /\ [][NextText]_vars

(* The settings: the two <select> elements and the recording controls that *)
(* create, replace and end recognizers.                                    *)

NextSettings ==
  \/ StartClick
  \/ StopClick
  \/ PauseClick
  \/ ResumeClick
  \/ \E code \in LanguageCodes : SelectLanguage(code)
  \/ \E api \in APIOptions : SelectAPI(api)
  \/ \E r \in RecIds : onstart(r)
  \/ \E r \in RecIds : onend(r)

SpecSettings == Init /\ [][NextSettings]_vars

(* The export of the transcript: save, clear and edit, with the controls   *)
(* and callbacks that make a session Recording and Paused.                 *)

NextSave ==
  \/ StartClick
  \/ PauseClick
  \/ clearText
  \/ \E now \in Dates : saveToFile(now)
  \/ \E value \in EditValues : EditText(value)
  \/ \E r \in RecIds : onstart(r)
  \/ \E r \in RecIds, ev \in SessionEvents : onresult(r, ev)

SpecSave == Init /\ [][NextSave]_vars

(* The clipboard: copy, with the handlers that write the text area.        *)

NextClipboard ==
  \/ clearText
  \/ copyToClipboard
  \/ \E value \in EditValues : EditText(value)

SpecClipboard == Init /\ [][NextClipboard]_vars

----------------------------------------------------------------------------
(* Claims *)

Quiescent == \A r \in RecIds : ~CallbackPending(r)

\* C1: every change of the session state is one of the five transitions of
\* the spec's state machine, and once no callback is pending (and the
\* service has not failed or ended on its own) the session state is the one
\* the spec's machine predicts for the clicks made.
C1_FollowsStateMachine ==
  [][ /\ (SessionState' # SessionState
          => <<SessionState, SessionState'>> \in SpecTransitions)
      /\ ((Quiescent' /\ ~faulted') => SessionState' = predicted') ]_vars

\* C2: at most one recognizer is outstanding (started and not yet ended).
C2_OneRecognizerOutstanding ==
  Cardinality({r \in RecIds : Outstanding(r)}) <= 1

\* C3: in every Paused state the Resume and Stop buttons are enabled, Resume
\* leads to Recording and Stop leads to Idle.
C3_PausedCanBeLeft ==
  [][ /\ (isPaused => (PauseEnabled /\ StopEnabled))
      /\ ((isPaused /\ last' = "ResumeClick") => SessionState' = "Recording")
      /\ ((isPaused /\ last' = "StopClick") => SessionState' = "Idle") ]_vars

\* C4: a recognition result extends the transcript only in a state where the
\* session is Recording.
C4_AppendOnlyWhileRecording ==
  [][ (last' = "onresult:final" /\ transcribedText' # transcribedText)
      => (isRecording /\ ~isPaused) ]_vars

\* C5: after a Stop click the session is Idle, and stays Idle until the next
\* Start or Resume click, whatever callbacks are delivered.
C5_IdleAfterStop == idleSinceStop => SessionState = "Idle"

\* C6: when a recognizer that reported an error has ended, the session is
\* Idle and Start is enabled.
C6_IdleAfterError ==
  [][ last' = "onend:error" => (SessionState' = "Idle" /\ StartEnabled') ]_vars

\* C7: when a recognizer that reported an error has ended, status holds the
\* error message set by onerror.
C7_StatusKeepsError ==
  [][ \A r \in RecIds :
        (last' = "onend:error" /\ recognizers[r].phase = "ending"
           /\ recognizers'[r].phase = "ended")
        => status' = StatusError(recognizers[r].error) ]_vars

\* the operations applied one after another, in delivery order
RECURSIVE Replay(_, _)
Replay(text, fs) ==
  IF fs = << >> THEN text
  ELSE Replay(text \o <<" ">> \o Head(fs), Tail(fs))

\* C8: the transcript is the result of applying the edits and the final
\* results one after another in delivery order: the value of the last edit
\* (or clear), then each final result delivered since appended to it in turn.
C8_EditsAndResultsInOrder == transcribedText = Replay(base, finals)

C8_Witness ==
  /\ last = "onresult:final"
  /\ base = <<"edit">>
  /\ finals = << <<"hello">> >>
  /\ transcribedText = <<"edit", " ", "hello">>

\* C9: an onresult event whose results from resultIndex on are all non-final
\* leaves transcribedText, isRecording and isPaused unchanged.
C9_InterimLeavesTranscript ==
  [][ last' = "onresult:interim"
      => UNCHANGED <<transcribedText, isRecording, isPaused>> ]_vars

C9_Witness ==
  /\ last = "onresult:interim"
  /\ status = StatusInterim(<<"hello", "world">>)
  /\ transcribedText = <<"edit">>

\* ' ' + t1, ..., ' ' + tn in that order
RECURSIVE SpacedJoin(_)
SpacedJoin(fs) ==
  IF fs = << >> THEN << >>
  ELSE SpacedJoin(SubSeq(fs, 1, Len(fs) - 1)) \o <<" ">> \o fs[Len(fs)]

\* C10: after the final results t1..tn the transcript is the value T it had
\* before them followed by ' ' + t1, ..., ' ' + tn; 'hello' then 'world' on
\* an empty transcript give ' hello' and then ' hello world'.
C10_FinalsAppendedInOrder ==
  /\ transcribedText = base \o SpacedJoin(finals)
  /\ (base = << >> /\ finals = << <<"hello">> >>)
       => transcribedText = <<" ", "hello">>
  /\ (base = << >> /\ finals = << <<"hello">>, <<"world">> >>)
       => transcribedText = <<" ", "hello", " ", "world">>

C10_Witness ==
  /\ last = "onresult:final"
  /\ base = << >>
  /\ finals = << <<"hello">>, <<"world">> >>
  /\ transcribedText = <<" ", "hello", " ", "world">>

\* C11: clearText, in whatever state it runs, leaves transcribedText = ''
\* and status = ''.
C11_ClearEmptiesTextAndStatus ==
  last = "clearText" => (transcribedText = << >> /\ status = StatusEmpty)

C11_Witness ==
  /\ last = "clearText"
  /\ isRecording
  /\ isPaused
  /\ transcribedText = << >>
  /\ status = StatusEmpty

\* empty or made of whitespace only
IsBlank(text) == \A i \in 1..Len(text) : text[i] \in Whitespace

\* C12: saveToFile on an empty or whitespace-only transcript sets status to
\* 'No text to save', triggers no download and leaves transcribedText,
\* isRecording and isPaused unchanged.
C12_BlankIsNotSaved ==
  [][ (last' = "saveToFile" /\ IsBlank(transcribedText))
      => /\ status' = StatusNoText
         /\ UNCHANGED <<downloads, transcribedText, isRecording, isPaused>> ]_vars

C12_Witness ==
  /\ last = "saveToFile"
  /\ transcribedText = <<" ">>
  /\ status = StatusNoText
  /\ isRecording
  /\ downloads = << >>

IsDigits(text) ==
  \A i \in 1..Len(text) : \E k \in 1..Len(DigitChars) : text[i] = DigitChars[k]

\* 'transcription_', 8 digits, '_', 6 digits, '.txt'
MatchesCompactName(name) ==
  /\ Len(name) = 17
  /\ name[1] = "transcription_"
  /\ IsDigits(SubSeq(name, 2, 9))
  /\ name[10] = "_"
  /\ IsDigits(SubSeq(name, 11, 16))
  /\ name[17] = ".txt"

\* 'transcription_', YYYY-MM-DDTHH-MM-SS, '.txt'
MatchesIsoName(name) ==
  /\ Len(name) = 21
  /\ name[1] = "transcription_"
  /\ IsDigits(SubSeq(name, 2, 5)) /\ name[6] = "-"
  /\ IsDigits(SubSeq(name, 7, 8)) /\ name[9] = "-"
  /\ IsDigits(SubSeq(name, 10, 11)) /\ name[12] = "T"
  /\ IsDigits(SubSeq(name, 13, 14)) /\ name[15] = "-"
  /\ IsDigits(SubSeq(name, 16, 17)) /\ name[18] = "-"
  /\ IsDigits(SubSeq(name, 19, 20))
  /\ name[21] = ".txt"

\* the step is a saveToFile on a transcript that is not blank and hands the
\* browser one more file, whose content is the transcript
SavesTranscript ==
  /\ Len(downloads') = Len(downloads) + 1
  /\ SubSeq(downloads', 1, Len(downloads)) = downloads
  /\ downloads'[Len(downloads')].content = transcribedText

C14_RecognizerKeepsLanguage ==
  [][ \A r \in RecIds :
        /\ (recognizers[r].phase # "none"
             => recognizers'[r].language = recognizers[r].language)
        /\ ((recognizers[r].phase = "none" /\ recognizers'[r].phase # "none")
             => recognizers'[r].language = selectedLanguage) ]_vars

C14_Witness ==
  /\ last = "SelectLanguage"
  /\ selectedLanguage = "es-ES"
  /\ recognitionRef = 1
  /\ recognizers[1].phase = "listening"
  /\ recognizers[1].language = "en-US"

\* C15: isPaused changes from false to true only in a step taken from the
\* Recording state, by a click on Pause.
C15_PausedOnlyFromRecording ==
  [][ (~isPaused /\ isPaused') => (isRecording /\ last' = "PauseClick") ]_vars

C15_Witness ==
  /\ last = "PauseClick"
  /\ isPaused
  /\ predicted = "Paused"
  /\ status = StatusPaused

\* C16: isRecording and isPaused are never both true.
C16_NeverRecordingAndPaused == ~(isRecording /\ isPaused)

\* the recognizer held in recognitionRef is listening
RefActive ==
  /\ recognitionRef # 0
  /\ recognizers[recognitionRef].phase = "listening"

\* C17: whenever no recognizer callback is pending, isRecording is true
\* exactly when the recognizer held in recognitionRef is active.
C17_RecordingIffRefActive == Quiescent => (isRecording <=> RefActive)

\* C18: without a SpeechRecognition capability a Start click only sets status
\* to the 'not supported' message, no recognizer is ever created and the
\* session stays Idle.
C18_UnsupportedStaysIdle ==
  [][ ~supported =>
        /\ (last' = "StartClick" =>
              /\ status' = StatusNotSupported
              /\ UNCHANGED <<isRecording, isPaused, transcribedText,
                             recognitionRef, recognizers>>)
        /\ SessionState' = "Idle"
        /\ recognitionRef' = 0
        /\ \A r \in RecIds : recognizers'[r].phase = "none" ]_vars

C18_Witness ==
  /\ ~supported
  /\ last = "StartClick"
  /\ status = StatusNotSupported
  /\ transcribedText = <<"edit">>
  /\ SessionState = "Idle"

====
